---- MODULE Spec2Model ----
(***************************************************************************)
(* FrozenCounter (src/frozencounter/__init__.py): an immutable wrapper     *)
(* around collections.Counter.  A FrozenCounter object holds one private   *)
(* Counter in self._counter and forwards every operation to it.            *)
(*                                                                         *)
(* A Counter is modelled as a function from the keys it stores to their    *)
(* integer counts (a dict; insertion order is left out because no          *)
(* operation modelled here reads it).  The Counter methods the wrapper     *)
(* calls are written out as the library executes them, one operator per    *)
(* call site of the wrapper.                                               *)
(***************************************************************************)
EXTENDS Integers, Sequences, FiniteSets, TLC

\* Bounds of the model.
MaxKey == 2
MaxCount == 1
MaxSrcLen == 2

Keys == 1..MaxKey
Counts == (0 - MaxCount)..MaxCount
\* every dict with keys in Keys and counts in Counts
Mappings == UNION {[S -> Counts] : S \in SUBSET Keys}
\* every iterable of at most MaxSrcLen elements
Iterables == UNION {[1..n -> Keys] : n \in 0..MaxSrcLen}
Empty == [k \in {} |-> 0]

\* The argument shapes of Counter(*args, **kwds), update and subtract.
IterSrc(s) == [shape |-> "iterable", elems |-> s, map |-> Empty]
MapSrc(m) == [shape |-> "mapping", elems |-> <<>>, map |-> m]
KwdSrc(m) == [shape |-> "kwds", elems |-> <<>>, map |-> m]
NoSrc == [shape |-> "none", elems |-> <<>>, map |-> Empty]
Sources ==
    {NoSrc} \cup {IterSrc(s) : s \in Iterables}
            \cup {MapSrc(m) : m \in Mappings} \cup {KwdSrc(m) : m \in Mappings}

\* The interpreters the package runs on: before 3.10 Counter inherits
\* dict.__eq__ / dict.__ne__, from 3.10 on it defines its own.
Runtimes == {"py39", "py310"}

-----------------------------------------------------------------------------
\* dict primitives

DictGet(m, k, d) == IF k \in DOMAIN m THEN m[k] ELSE d

DictSet(m, k, v) == [x \in DOMAIN m \cup {k} |-> IF x = k THEN v ELSE m[x]]

\* Counter.__missing__: a missing key reads as 0 and is not stored
CounterGetItem(m, k) == IF k \in DOMAIN m THEN m[k] ELSE 0

\* _count_elements(mapping, iterable): mapping[elem] = mapping.get(elem, 0) + 1
RECURSIVE CountElements(_, _)
CountElements(m, s) ==
    IF s = <<>> THEN m
    ELSE CountElements(DictSet(m, Head(s), DictGet(m, Head(s), 0) + 1), Tail(s))

\* Counter.update(iterable, **kwds) on the dict m.  A mapping source is added
\* key by key (self[elem] = count + self.get(elem, 0)); on an empty self it is
\* dict.update, which stores the source's entries as they are.
CounterUpdate(m, src) ==
    CASE src.shape = "iterable" -> CountElements(m, src.elems)
      [] src.shape \in {"mapping", "kwds"} ->
            IF m # Empty
            THEN [k \in DOMAIN m \cup DOMAIN src.map |->
                    IF k \in DOMAIN src.map THEN src.map[k] + DictGet(m, k, 0) ELSE m[k]]
            ELSE src.map
      [] OTHER -> m

\* Counter.subtract(iterable, **kwds): self[elem] = self.get(elem, 0) - count
RECURSIVE SubtractElements(_, _)
SubtractElements(m, s) ==
    IF s = <<>> THEN m
    ELSE SubtractElements(DictSet(m, Head(s), DictGet(m, Head(s), 0) - 1), Tail(s))

CounterSubtract(m, src) ==
    CASE src.shape = "iterable" -> SubtractElements(m, src.elems)
      [] src.shape \in {"mapping", "kwds"} ->
            [k \in DOMAIN m \cup DOMAIN src.map |->
                IF k \in DOMAIN src.map THEN DictGet(m, k, 0) - src.map[k] ELSE m[k]]
      [] OTHER -> m

\* Counter(*args, **kwds): an empty dict, then update
NewCounter(src) == CounterUpdate(Empty, src)

\* Counter.copy(): self.__class__(self)
CounterCopy(m) == NewCounter(MapSrc(m))

-----------------------------------------------------------------------------
\* Counter's multiset operators.  Each one walks self.items(), keeps the new
\* count when it is > 0, then walks other.items() for the keys self lacks.

CounterAdd(m, o) ==
    LET first == {k \in DOMAIN m : m[k] + CounterGetItem(o, k) > 0}
        second == {k \in DOMAIN o : k \notin DOMAIN m /\ o[k] > 0}
    IN  [k \in first \cup second |->
            IF k \in first THEN m[k] + CounterGetItem(o, k) ELSE o[k]]

\* CounterSub without its second loop
CounterSubOneLoop(m, o) ==
    [k \in {x \in DOMAIN m : m[x] - CounterGetItem(o, x) > 0} |-> m[k] - CounterGetItem(o, k)]

CounterSub(m, o) ==
    LET first == {k \in DOMAIN m : m[k] - CounterGetItem(o, k) > 0}
        second == {k \in DOMAIN o : k \notin DOMAIN m /\ o[k] < 0}
    IN  [k \in first \cup second |->
            IF k \in first THEN m[k] - CounterGetItem(o, k) ELSE 0 - o[k]]

OrCount(count, other_count) == IF count < other_count THEN other_count ELSE count

CounterOr(m, o) ==
    LET first == {k \in DOMAIN m : OrCount(m[k], CounterGetItem(o, k)) > 0}
        second == {k \in DOMAIN o : k \notin DOMAIN m /\ o[k] > 0}
    IN  [k \in first \cup second |->
            IF k \in first THEN OrCount(m[k], CounterGetItem(o, k)) ELSE o[k]]

AndCount(count, other_count) == IF count < other_count THEN count ELSE other_count

CounterAnd(m, o) ==
    LET first == {k \in DOMAIN m : AndCount(m[k], CounterGetItem(o, k)) > 0}
    IN  [k \in first |-> AndCount(m[k], CounterGetItem(o, k))]

\* CounterPos with >= for >
CounterPosKeepsZero(m) == [k \in {x \in DOMAIN m : m[x] >= 0} |-> m[k]]

\* Counter.__pos__ / __neg__
CounterPos(m) == [k \in {x \in DOMAIN m : m[x] > 0} |-> m[k]]

CounterNeg(m) == [k \in {x \in DOMAIN m : m[x] < 0} |-> 0 - m[k]]

\* self._counter == other._counter.  dict.__eq__ compares the stored entries;
\* Counter.__eq__ (3.10 and later) compares the counts of every key of either
\* side, a missing key counting as 0.
CounterEq(rt, m, o) ==
    IF rt = "py310"
    THEN \A k \in DOMAIN m \cup DOMAIN o : CounterGetItem(m, k) = CounterGetItem(o, k)
    ELSE DOMAIN m = DOMAIN o /\ \A k \in DOMAIN m : m[k] = o[k]

\* self._counter != other._counter
CounterNe(rt, m, o) == ~CounterEq(rt, m, o)

\* Counter.__setitem__ on a plain Counter: dict.__setitem__
CounterSetItem(m, k, v) == DictSet(m, k, v)

\* dict.items()
Items(m) == {<<k, m[k]>> : k \in DOMAIN m}

-----------------------------------------------------------------------------
\* FrozenCounter's methods.  Each takes the dict held by self._counter and
\* returns what the call leaves behind:
\*   counter  self._counter after the call
\*   cls      class of the returned object ("none" when the call raised)
\*   ref      "new": a new object owning a new dict; "shared": a new object
\*            around the dict object of self._counter; "self": the object the
\*            method was called on; "value": not a container
\*   map      the dict of the returned container
\*   val      the returned number, flag the returned truth value
\*   raised   the exception the call ended in, msg its message
Ret ==
    [counter |-> Empty, cls |-> "none", ref |-> "value", map |-> Empty,
     val |-> 0, flag |-> FALSE, raised |-> "", msg |-> ""]

\* FrozenCounter(x): self._counter = Counter(x), a dict of its own
FrozenCounterOf(m) == [cls |-> "FrozenCounter", ref |-> "new", map |-> NewCounter(MapSrc(m))]

Returning(m, obj) ==
    [Ret EXCEPT !.counter = m, !.cls = obj.cls, !.ref = obj.ref, !.map = obj.map]

\* FrozenCounter.__init__
Construct(src) == NewCounter(src)

\* Update without the copy: self._counter is updated and handed out
UpdateInPlace(m, src) ==
    [Ret EXCEPT !.counter = CounterUpdate(m, src), !.cls = "Counter", !.ref = "shared",
                !.map = CounterUpdate(m, src)]

\* FrozenCounter.update: new_counter = copy; new_counter.update(...); return new_counter
Update(m, src) ==
    Returning(m, [cls |-> "Counter", ref |-> "new", map |-> CounterUpdate(CounterCopy(m), src)])

\* Subtract written with the binary operator
SubtractClamps(m, src) == Returning(m, FrozenCounterOf(CounterSub(m, NewCounter(src))))

\* FrozenCounter.subtract: copy; subtract; return FrozenCounter(new_counter)
Subtract(m, src) ==
    Returning(m, FrozenCounterOf(CounterSubtract(CounterCopy(m), src)))

\* Copy that hands out the object itself
CopyReturnsSelf(m) ==
    [Ret EXCEPT !.counter = m, !.cls = "FrozenCounter", !.ref = "self", !.map = m]

\* FrozenCounter.copy: self.__class__(self._counter)
Copy(m) == Returning(m, FrozenCounterOf(m))

\* raise_frozen_error(f, msg, *args): the wrapped body never runs
RaiseFrozenError(m, msg) ==
    [Ret EXCEPT !.counter = m, !.raised = "FrozenInstanceError", !.msg = msg]

\* SetItem that stores
SetItemStores(m, k, v) == [Ret EXCEPT !.counter = DictSet(m, k, v)]

\* FrozenCounter.__setitem__ / __delitem__
SetItem(m, k, v) == RaiseFrozenError(m, "")

DelItem(m, k) == RaiseFrozenError(m, "'FrozenCounter' doesn't support item deletion")

\* GetItem that stores the 0 it returns for a missing key
GetItemInserts(m, k) ==
    [Ret EXCEPT !.counter = IF k \in DOMAIN m THEN m ELSE DictSet(m, k, 0),
                !.cls = "int", !.val = CounterGetItem(m, k)]

\* FrozenCounter.__getitem__
GetItem(m, k) == [Ret EXCEPT !.counter = m, !.cls = "int", !.val = CounterGetItem(m, k)]

\* self[k] += v: __getitem__, then __setitem__ with the sum
AugAssign(m, k, v) ==
    LET got == GetItem(m, k) IN SetItem(got.counter, k, got.val + v)

\* FrozenCounter.get(k, default=None); d is [none, n]: None or the number n
NoneDefault == [none |-> TRUE, n |-> 0]
Default(n) == [none |-> FALSE, n |-> n]

Get(m, k, d) ==
    IF k \in DOMAIN m THEN [Ret EXCEPT !.counter = m, !.cls = "int", !.val = m[k]]
    ELSE IF d.none THEN [Ret EXCEPT !.counter = m, !.cls = "NoneType"]
    ELSE [Ret EXCEPT !.counter = m, !.cls = "int", !.val = d.n]

\* FrozenCounter.__contains__ / __len__
Contains(m, k) == [Ret EXCEPT !.counter = m, !.cls = "bool", !.flag = (k \in DOMAIN m)]

Length(m) == [Ret EXCEPT !.counter = m, !.cls = "int", !.val = Cardinality(DOMAIN m)]

\* FrozenCounter.keys / values / items / __iter__: read-only views of the dict
View(m) == [Ret EXCEPT !.counter = m, !.cls = "view", !.map = m]

\* FrozenCounter.elements: each key with a positive count, that many times
Elements(m) == [Ret EXCEPT !.counter = m, !.cls = "iterator", !.map = CounterPos(m)]

\* FrozenCounter.most_common(n): a new list of at most n entries (which
\* entries is a matter of insertion order, left out here)
MostCommon(m, n) ==
    LET size == Cardinality(DOMAIN m)
    IN  [Ret EXCEPT !.counter = m, !.cls = "list",
                    !.val = IF n <= 0 THEN 0 ELSE IF n > size THEN size ELSE n]

\* binary operators between two FrozenCounter objects
Add(m, o) == Returning(m, FrozenCounterOf(CounterAdd(m, o)))

Sub(m, o) == Returning(m, FrozenCounterOf(CounterSub(m, o)))

Or(m, o) == Returning(m, FrozenCounterOf(CounterOr(m, o)))

And(m, o) == Returning(m, FrozenCounterOf(CounterAnd(m, o)))

\* unary operators
Pos(m) == Returning(m, FrozenCounterOf(CounterPos(m)))

Neg(m) == Returning(m, FrozenCounterOf(CounterNeg(m)))

\* FrozenCounter.__eq__ / __ne__
Eq(rt, m, o) == [Ret EXCEPT !.counter = m, !.cls = "bool", !.flag = CounterEq(rt, m, o)]

Ne(rt, m, o) == [Ret EXCEPT !.counter = m, !.cls = "bool", !.flag = CounterNe(rt, m, o)]

\* FrozenCounter.__hash__: hash((FrozenCounter, frozenset(self._counter.items())));
\* the value hashed stands for its hash
Hash(m) == <<"FrozenCounter", Items(m)>>

-----------------------------------------------------------------------------
\* State.
\*   a, b    the dicts held by two FrozenCounter objects a and b
\*   pre     the dict of a before the last call
\*   s       the source handed to update / subtract
\*   rt      the interpreter the program runs on
\*   out     the last call: its name, its arguments and what it returned
\*   objs, store, name   the object graph of a session (see below)
VARIABLES a, b, s, pre, rt, out, objs, store, name

vars == <<a, b, s, pre, rt, out, objs, store, name>>

NoCall ==
    [op |-> "init", k |-> 0, v |-> 0, d |-> NoneDefault, src |-> NoSrc,
     self |-> "", to |-> "", ret |-> Ret]

Defaults == {NoneDefault} \cup {Default(n) : n \in Counts}

\* a call on a that returned ret
Call(call, ret) ==
    /\ pre' = a
    /\ a' = ret.counter
    /\ out' = [call EXCEPT !.ret = ret]
    /\ UNCHANGED <<b, s, rt, objs, store, name>>

-----------------------------------------------------------------------------
\* One instance a, built from any mapping, and the calls that take no second
\* instance.

IGet == \E k \in Keys, d \in Defaults :
    Call([NoCall EXCEPT !.op = "get", !.k = k, !.d = d], Get(a, k, d))

IGetItem == \E k \in Keys :
    Call([NoCall EXCEPT !.op = "getitem", !.k = k], GetItem(a, k))

IContains == \E k \in Keys :
    Call([NoCall EXCEPT !.op = "contains", !.k = k], Contains(a, k))

ILen == Call([NoCall EXCEPT !.op = "len"], Length(a))

ISetItem == \E k \in Keys, v \in Counts :
    Call([NoCall EXCEPT !.op = "setitem", !.k = k, !.v = v], SetItem(a, k, v))

IDelItem == \E k \in Keys :
    Call([NoCall EXCEPT !.op = "delitem", !.k = k], DelItem(a, k))

IAugAssign == \E k \in Keys, v \in Counts :
    Call([NoCall EXCEPT !.op = "augassign", !.k = k, !.v = v], AugAssign(a, k, v))

IPos == Call([NoCall EXCEPT !.op = "pos"], Pos(a))

INeg == Call([NoCall EXCEPT !.op = "neg"], Neg(a))

NoObjs == [i \in {} |-> 0]

InitInstance ==
    /\ a \in Mappings
    /\ pre = a
    /\ b = Empty
    /\ s = NoSrc
    /\ rt \in Runtimes
    /\ out = NoCall
    /\ objs = NoObjs /\ store = NoObjs /\ name = NoObjs

NextInstance ==
    \/ IGet \/ IGetItem \/ IContains \/ ILen
    \/ ISetItem \/ IDelItem \/ IAugAssign
    \/ IPos \/ INeg

SpecInstance == InitInstance /\ [][NextInstance]_vars

-----------------------------------------------------------------------------
\* One instance a and one source s of any shape: a.update(s), a.subtract(s).

SUpdate == Call([NoCall EXCEPT !.op = "update", !.src = s], Update(a, s))

SSubtract == Call([NoCall EXCEPT !.op = "subtract", !.src = s], Subtract(a, s))

InitSource ==
    /\ a \in Mappings
    /\ pre = a
    /\ b = Empty
    /\ s \in Sources
    /\ rt \in Runtimes
    /\ out = NoCall
    /\ objs = NoObjs /\ store = NoObjs /\ name = NoObjs

NextSource == SUpdate \/ SSubtract

SpecSource == InitSource /\ [][NextSource]_vars

-----------------------------------------------------------------------------
\* Two instances a and b, built from any two mappings, and the calls between
\* them.

PAdd == Call([NoCall EXCEPT !.op = "add"], Add(a, b))

PSub == Call([NoCall EXCEPT !.op = "sub"], Sub(a, b))

POr == Call([NoCall EXCEPT !.op = "or"], Or(a, b))

PAnd == Call([NoCall EXCEPT !.op = "and"], And(a, b))

PEq == Call([NoCall EXCEPT !.op = "eq"], Eq(rt, a, b))

PNe == Call([NoCall EXCEPT !.op = "ne"], Ne(rt, a, b))

\* hash(a) == hash(b)
PHashEq ==
    Call([NoCall EXCEPT !.op = "hasheq"],
         [Ret EXCEPT !.counter = a, !.cls = "bool", !.flag = (Hash(a) = Hash(b))])

InitPair ==
    /\ a \in Mappings
    /\ b \in Mappings
    /\ s = NoSrc
    /\ pre = a
    /\ rt \in Runtimes
    /\ out = NoCall
    /\ objs = NoObjs /\ store = NoObjs /\ name = NoObjs

NextPair == PAdd \/ PSub \/ POr \/ PAnd \/ PEq \/ PNe \/ PHashEq

SpecPair == InitPair /\ [][NextPair]_vars

-----------------------------------------------------------------------------
\* A session on the object graph.  The program holds two variables, c and d.
\* objs are the live objects: a FrozenCounter (counter is the address of the
\* dict in its _counter, born that dict's content when the object was built)
\* or a plain Counter (counter is its own address).  store is the content of
\* every dict.  An object no variable refers to is freed.  The dicts a call
\* builds and drops before it returns are not given an address.
MaxHeapKey == 1
MaxHeapSrcLen == 1

HeapKeys == 1..MaxHeapKey
HeapMappings == UNION {[S -> Counts] : S \in SUBSET HeapKeys}
HeapIterables == UNION {[1..n -> HeapKeys] : n \in 0..MaxHeapSrcLen}
HeapSources ==
    {NoSrc} \cup {IterSrc(q) : q \in HeapIterables} \cup {MapSrc(m) : m \in HeapMappings}

Names == {"c", "d"}
ObjIds == 1..(Cardinality(Names) + 1)
FreeObj == [cls |-> "free", counter |-> 0, born |-> Empty]

InRange(m) == \A k \in DOMAIN m : m[k] \in Counts

\* Free what no variable refers to, and number what is left in the order of
\* the variables (c's object first, its dict first): an object's identity is
\* all the program can see of its address.  The last id is thus always free
\* for the next object.
Collect(o, st, nm) ==
    LET c0 == nm["c"]
        d0 == nm["d"]
        first == IF c0 # 0 THEN c0 ELSE d0
        second == IF c0 # 0 /\ d0 # 0 /\ d0 # c0 THEN d0 ELSE 0
        addr1 == IF first = 0 THEN 0 ELSE o[first].counter
        addr2 == IF second = 0 THEN 0 ELSE o[second].counter
    IN  /\ objs' = [n \in ObjIds |->
                      IF n = 1 /\ first # 0 THEN [o[first] EXCEPT !.counter = 1]
                      ELSE IF n = 2 /\ second # 0
                           THEN [o[second] EXCEPT !.counter = IF addr2 = addr1 THEN 1 ELSE 2]
                      ELSE FreeObj]
        /\ store' = [n \in ObjIds |->
                      IF n = 1 /\ first # 0 THEN st[addr1]
                      ELSE IF n = 2 /\ second # 0 /\ addr2 # addr1 THEN st[addr2]
                      ELSE Empty]
        /\ name' = [x \in Names |->
                      IF nm[x] = 0 THEN 0 ELSE IF nm[x] = first THEN 1 ELSE 2]

NewId == Cardinality(Names) + 1

IsFrozen(x) == name[x] # 0 /\ objs[name[x]].cls = "FrozenCounter"

Dict(x) == store[objs[name[x]].counter]

\* t = <call on the FrozenCounter x that returned ret>
HReturn(call, t, x, ret) ==
    LET self == name[x]
        sa == objs[self].counter
        st1 == [store EXCEPT ![sa] = ret.counter]
        id == NewId
        ad == NewId
    IN  /\ InRange(ret.counter) /\ InRange(ret.map)
        /\ CASE ret.raised = "" /\ ret.ref = "new" ->
                    Collect([objs EXCEPT ![id] =
                                [cls |-> ret.cls, counter |-> ad,
                                 born |-> IF ret.cls = "FrozenCounter" THEN ret.map ELSE Empty]],
                            [st1 EXCEPT ![ad] = ret.map],
                            [name EXCEPT ![t] = id])
             [] ret.raised = "" /\ ret.ref = "shared" ->
                    Collect([objs EXCEPT ![id] =
                                [cls |-> ret.cls, counter |-> sa,
                                 born |-> IF ret.cls = "FrozenCounter" THEN ret.map ELSE Empty]],
                            st1,
                            [name EXCEPT ![t] = id])
             [] ret.raised = "" /\ ret.ref = "self" ->
                    Collect(objs, st1, [name EXCEPT ![t] = self])
             [] OTHER -> Collect(objs, st1, name)
        /\ out' = call
        /\ UNCHANGED <<a, b, s, pre, rt>>

\* the sources a session hands to FrozenCounter(), update and subtract: an
\* iterable, or the mapping held by a variable (a FrozenCounter or a Counter
\* is a Mapping)
SessionSources ==
    {IterSrc(q) : q \in HeapIterables}
        \cup {MapSrc(store[objs[name[y]].counter]) : y \in {z \in Names : name[z] # 0}}

\* t = FrozenCounter(src)
HConstruct == \E t \in Names, src \in SessionSources \cup {NoSrc} :
    LET id == NewId
        ad == NewId
        m == Construct(src)
    IN  /\ Collect([objs EXCEPT ![id] = [cls |-> "FrozenCounter", counter |-> ad, born |-> m]],
                   [store EXCEPT ![ad] = m],
                   [name EXCEPT ![t] = id])
        /\ out' = [NoCall EXCEPT !.op = "call"]
        /\ UNCHANGED <<a, b, s, pre, rt>>

\* t = x
HBind == \E t \in Names, x \in Names :
    /\ name[x] # 0 /\ t # x
    /\ Collect(objs, store, [name EXCEPT ![t] = name[x]])
    /\ out' = [NoCall EXCEPT !.op = "call"]
    /\ UNCHANGED <<a, b, s, pre, rt>>

HUpdate == \E t \in Names, x \in Names, src \in SessionSources :
    /\ IsFrozen(x)
    /\ HReturn([NoCall EXCEPT !.op = "call"], t, x, Update(Dict(x), src))

HSubtract == \E t \in Names, x \in Names, src \in SessionSources :
    /\ IsFrozen(x)
    /\ HReturn([NoCall EXCEPT !.op = "call"], t, x, Subtract(Dict(x), src))

HCopy == \E t \in Names, x \in Names :
    /\ IsFrozen(x)
    /\ HReturn([NoCall EXCEPT !.op = "copy", !.self = x, !.to = t], t, x, Copy(Dict(x)))

HUnary == \E t \in Names, x \in Names :
    /\ IsFrozen(x)
    /\ \/ HReturn([NoCall EXCEPT !.op = "call"], t, x, Pos(Dict(x)))
       \/ HReturn([NoCall EXCEPT !.op = "call"], t, x, Neg(Dict(x)))

\* t = x + y, x - y, x | y, x & y; with t = x this is also x += y and its
\* kin: the class defines no in-place operator, so the binary one runs and
\* the variable is bound to what it returns.  A y that is no FrozenCounter
\* gets NotImplemented and nothing is bound.
HBinary == \E t \in Names, x \in Names, y \in Names :
    /\ IsFrozen(x) /\ IsFrozen(y)
    /\ LET call == [NoCall EXCEPT !.op = IF t = x THEN "inplace" ELSE "call"]
       IN  \/ HReturn(call, t, x, Add(Dict(x), Dict(y)))
           \/ HReturn(call, t, x, Sub(Dict(x), Dict(y)))
           \/ HReturn(call, t, x, Or(Dict(x), Dict(y)))
           \/ HReturn(call, t, x, And(Dict(x), Dict(y)))

\* x.get(k), x[k], k in x, len(x), x.keys(), x.elements(), x.most_common(n)
HRead == \E x \in Names, k \in HeapKeys :
    /\ IsFrozen(x)
    /\ LET call == [NoCall EXCEPT !.op = "call"]
       IN  \/ \E d \in {NoneDefault, Default(0)} : HReturn(call, x, x, Get(Dict(x), k, d))
           \/ HReturn(call, x, x, GetItem(Dict(x), k))
           \/ HReturn(call, x, x, Contains(Dict(x), k))
           \/ HReturn(call, x, x, Length(Dict(x)))
           \/ HReturn(call, x, x, View(Dict(x)))
           \/ HReturn(call, x, x, Elements(Dict(x)))
           \/ HReturn(call, x, x, MostCommon(Dict(x), k))

\* x[k] = v, del x[k], x[k] += v on a FrozenCounter
HSetItem == \E x \in Names, k \in HeapKeys :
    /\ IsFrozen(x)
    /\ LET call == [NoCall EXCEPT !.op = "call"]
       IN  \/ \E v \in Counts : HReturn(call, x, x, SetItem(Dict(x), k, v))
           \/ HReturn(call, x, x, DelItem(Dict(x), k))
           \/ HReturn(call, x, x, AugAssign(Dict(x), k, 1))

\* x[k] = v on the plain Counter that update returned
HMutate == \E x \in Names, k \in HeapKeys, v \in Counts :
    /\ name[x] # 0 /\ objs[name[x]].cls = "Counter"
    /\ store' = [store EXCEPT ![objs[name[x]].counter] = CounterSetItem(@, k, v)]
    /\ store' # store
    /\ out' = [NoCall EXCEPT !.op = "mutate"]
    /\ UNCHANGED <<a, b, s, pre, rt, objs, name>>

Init ==
    /\ a = Empty /\ b = Empty /\ s = NoSrc /\ pre = Empty
    /\ rt = "py310"    \* no call of a session reads it
    /\ out = NoCall
    /\ \E src \in HeapSources :
          /\ objs = [i \in ObjIds |->
                        IF i = 1 THEN [cls |-> "FrozenCounter", counter |-> 1, born |-> Construct(src)]
                        ELSE FreeObj]
          /\ store = [i \in ObjIds |-> IF i = 1 THEN Construct(src) ELSE Empty]
    /\ name = [x \in Names |-> IF x = "c" THEN 1 ELSE 0]

Next ==
    \/ HConstruct \/ HBind
    \/ HUpdate \/ HSubtract \/ HCopy \/ HUnary \/ HBinary
    \/ HRead \/ HSetItem \/ HMutate

Spec == Init /\ [][Next]_vars

-----------------------------------------------------------------------------
\* Properties.

\* what the claims call a[k]: the stored count, 0 for a key not stored
CountOf(m, k) == IF k \in DOMAIN m THEN m[k] ELSE 0
Max(x, y) == IF x >= y THEN x ELSE y
Min(x, y) == IF x <= y THEN x ELSE y
\* the count of k a source implies, and the keys a source names
Implied(src, k) ==
    IF src.shape = "iterable" THEN Cardinality({i \in DOMAIN src.elems : src.elems[i] = k})
    ELSE CountOf(src.map, k)
SrcKeys(src) ==
    IF src.shape = "iterable" THEN {src.elems[i] : i \in DOMAIN src.elems} ELSE DOMAIN src.map
SameEntries(m, o) == Items(m) = Items(o)
IsNewFrozenCounter(ret) == ret.raised = "" /\ ret.cls = "FrozenCounter" /\ ret.ref = "new"
\* ret holds exactly the keys whose count f(k) is > 0, each with that count
HoldsPositive(ret, f(_)) ==
    /\ DOMAIN ret.map = {k \in Keys : f(k) > 0}
    /\ \A k \in DOMAIN ret.map : ret.map[k] = f(k)

\* C1: whatever is called on an instance or on its aliases, and however the
\* objects those calls returned are changed afterwards, every live
\* FrozenCounter holds the mapping it was built with, and no two live
\* objects share one dict.
C1_InstancesKeepTheirMapping ==
    /\ \A i \in ObjIds :
          objs[i].cls = "FrozenCounter" => store[objs[i].counter] = objs[i].born
    /\ \A i, j \in ObjIds :
          (i # j /\ objs[i].cls # "free" /\ objs[j].cls # "free")
              => objs[i].counter # objs[j].counter

\* the Counter that update returned was changed in place while the instance
\* it came from is still held
C1_Witness ==
    /\ out.op = "mutate"
    /\ \E x, y \in Names :
          IsFrozen(x) /\ name[y] # 0 /\ objs[name[y]].cls = "Counter" /\ Dict(y) # Dict(x)

\* C2: a[k] = v, a[k] += v and del a[k] end in FrozenInstanceError and leave
\* the mapping of a as it was, for stored and for missing keys.
C2_ItemAssignmentRaises ==
    out.op \in {"setitem", "delitem", "augassign"}
        => (out.ret.raised = "FrozenInstanceError" /\ a = pre)

C2_Witness ==
    /\ out.op = "augassign" /\ out.k \notin DOMAIN pre /\ DOMAIN pre # {}
    /\ out.ret.raised = "FrozenInstanceError"

\* C3: a == b implies hash(a) == hash(b).
C3_EqualImpliesEqualHash ==
    (out.op = "eq" /\ out.ret.flag) => Hash(a) = Hash(b)

\* C4: a == b exactly when a and b store the same keys with the same counts
\* (zero and negative entries included), and a != b is its negation.
C4_EqualIffSameEntries ==
    /\ out.op = "eq" => (out.ret.flag <=> SameEntries(a, b))
    /\ out.op = "ne" => (out.ret.flag <=> ~SameEntries(a, b))

\* C5: a + b, a - b, a | b, a & b return a new instance holding exactly the
\* keys whose sum, difference, maximum, minimum of counts (0 for a key not
\* stored) is > 0, each with that value; so every count in it is > 0.
C5_OperatorsKeepPositive ==
    /\ out.op \in {"add", "sub", "or", "and"} =>
          (IsNewFrozenCounter(out.ret) /\ a = pre
              /\ \A k \in DOMAIN out.ret.map : out.ret.map[k] > 0)
    /\ out.op = "add" => LET f(k) == CountOf(a, k) + CountOf(b, k) IN HoldsPositive(out.ret, f)
    /\ out.op = "sub" => LET f(k) == CountOf(a, k) - CountOf(b, k) IN HoldsPositive(out.ret, f)
    /\ out.op = "or" => LET f(k) == Max(CountOf(a, k), CountOf(b, k)) IN HoldsPositive(out.ret, f)
    /\ out.op = "and" => LET f(k) == Min(CountOf(a, k), CountOf(b, k)) IN HoldsPositive(out.ret, f)

\* a - b where b stores a negative count for a key a does not store
C5_Witness ==
    /\ out.op = "sub"
    /\ \E k \in DOMAIN b \ DOMAIN a : b[k] < 0 /\ out.ret.map[k] = 0 - b[k]
    /\ \E k \in DOMAIN a : a[k] <= 0

\* C6: a.update(s) returns a new FrozenCounter whose count for each key is
\* a[k] plus the count s implies, zero and negative results kept.
C6_UpdateReturnsFrozenCounter ==
    out.op = "update" =>
        /\ IsNewFrozenCounter(out.ret)
        /\ DOMAIN out.ret.map = DOMAIN pre \cup SrcKeys(out.src)
        /\ \A k \in DOMAIN out.ret.map : out.ret.map[k] = CountOf(pre, k) + Implied(out.src, k)

\* C7: a.subtract(s) returns a new FrozenCounter that holds every key of a
\* or of s with the count a[k] minus the count s implies, zero and negative
\* results kept; its entries > 0 are those of the binary a - b.
C7_SubtractKeepsAllEntries ==
    out.op = "subtract" =>
        /\ IsNewFrozenCounter(out.ret) /\ a = pre
        /\ DOMAIN out.ret.map = DOMAIN pre \cup SrcKeys(out.src)
        /\ \A k \in DOMAIN out.ret.map : out.ret.map[k] = CountOf(pre, k) - Implied(out.src, k)
        /\ out.src.shape = "mapping" =>
              Items(Sub(pre, out.src.map).map) = {e \in Items(out.ret.map) : e[2] > 0}

\* a key of s that a does not store ends with a count below 0, which a - b drops
C7_Witness ==
    /\ out.op = "subtract" /\ out.src.shape = "mapping"
    /\ \E k \in DOMAIN out.ret.map \ DOMAIN pre :
          out.ret.map[k] < 0 /\ k \notin DOMAIN Sub(pre, out.src.map).map
    /\ \E k \in DOMAIN pre : out.ret.map[k] > 0

\* C8: reading a key a does not store returns the default (get), 0
\* (a[k]) or false (k in a), raises nothing and stores nothing: the keys and
\* len(a) stay as they were.
C8_MissingKeyReadsStoreNothing ==
    /\ (out.op = "get" /\ out.k \notin DOMAIN pre) =>
          /\ out.ret.raised = ""
          /\ IF out.d.none THEN out.ret.cls = "NoneType"
             ELSE out.ret.cls = "int" /\ out.ret.val = out.d.n
    /\ (out.op = "getitem" /\ out.k \notin DOMAIN pre) =>
          (out.ret.raised = "" /\ out.ret.cls = "int" /\ out.ret.val = 0)
    /\ (out.op = "contains" /\ out.k \notin DOMAIN pre) =>
          (out.ret.raised = "" /\ ~out.ret.flag)
    /\ out.op \in {"get", "getitem", "contains", "len"} =>
          (DOMAIN a = DOMAIN pre /\ Cardinality(DOMAIN a) = Cardinality(DOMAIN pre) /\ a = pre)
    /\ out.op = "len" => out.ret.val = Cardinality(DOMAIN pre)

C8_Witness ==
    /\ out.op = "getitem" /\ out.k \notin DOMAIN pre /\ out.k \notin DOMAIN a
    /\ out.ret.val = 0 /\ DOMAIN a # {}

\* C9: an instance equals itself, and d = c.copy() is another object than c,
\* equal to c, with the hash of c and a dict of its own.
C9_CopyIsEqualAndDistinct ==
    /\ \A x \in Names : IsFrozen(x) =>
          \A r \in Runtimes : Eq(r, Dict(x), Dict(x)).flag /\ ~Ne(r, Dict(x), Dict(x)).flag
    /\ (out.op = "copy" /\ out.to # out.self) =>
          /\ IsFrozen(out.to) /\ IsFrozen(out.self)
          /\ name[out.to] # name[out.self]
          /\ objs[name[out.to]].counter # objs[name[out.self]].counter
          /\ \A r \in Runtimes : Eq(r, Dict(out.self), Dict(out.to)).flag
          /\ Hash(Dict(out.to)) = Hash(Dict(out.self))

\* the copy of an instance that stores a count that is not positive
C9_Witness ==
    /\ out.op = "copy" /\ out.to # out.self
    /\ \E k \in DOMAIN Dict(out.self) : Dict(out.self)[k] <= 0

\* C10: +a is a | FrozenCounter(): the entries of a with a count > 0,
\* unchanged (so +(+a) is +a); -a is FrozenCounter() - a: the entries of a
\* with a count < 0, sign flipped.
C10_UnaryIsBinaryWithEmpty ==
    /\ out.op = "pos" =>
          /\ IsNewFrozenCounter(out.ret)
          /\ out.ret.map = Or(pre, Construct(NoSrc)).map
          /\ \A r \in Runtimes : Eq(r, out.ret.map, Or(pre, Construct(NoSrc)).map).flag
          /\ Items(out.ret.map) = {e \in Items(pre) : e[2] > 0}
          /\ Pos(out.ret.map).map = out.ret.map
    /\ out.op = "neg" =>
          /\ IsNewFrozenCounter(out.ret)
          /\ out.ret.map = Sub(Construct(NoSrc), pre).map
          /\ \A r \in Runtimes : Eq(r, out.ret.map, Sub(Construct(NoSrc), pre).map).flag
          /\ Items(out.ret.map) = {<<e[1], 0 - e[2]>> : e \in {x \in Items(pre) : x[2] < 0}}

\* -a where a stores a negative count next to one that is not
C10_Witness ==
    /\ out.op = "neg"
    /\ \E k \in DOMAIN pre : pre[k] < 0
    /\ \E k \in DOMAIN pre : pre[k] >= 0

====
